---- MODULE Spec2Model ----
(***************************************************************************)
(* A model of the timeseries package: Series (series.py), TimeSeries         *)
(* (time_series.py) and DataFrame, the group of series (data_frame.py).     *)
(* A series object is a heap cell holding the list `points` of (x, y)       *)
(* tuples; the group is the dict `groups` from labels to series objects.    *)
(* Numbers are modelled as exact rationals <<n, d>> in lowest terms         *)
(* (d > 0); a Python int n is Num(n).                                       *)
(* Spec explores calls on series; GroupSpec explores calls on a group.      *)
(***************************************************************************)
EXTENDS Integers, Sequences, FiniteSets, TLC

\* ------------------------------------------------------------------ bounds
MaxKey == 2        \* x values (timestamps) are drawn from 1..MaxKey
MaxLen == 2        \* longest pair list / mapping handed to a constructor
MaxObjs == 3       \* series objects that can be alive at once
MaxInputs == 2     \* of which at most this many are built from caller input
MaxSteps == 3      \* calls explored per behaviour
MaxHorizon == 2    \* largest forecast horizon
MaxWindow == 3     \* largest moving-average window
MaxExp == 2        \* largest exponent magnitude handed to **
MaxPairs == 2      \* most old=new pairs handed to one rename call
MaxGroupSteps == 2 \* calls on the group explored per behaviour

Keys == 1..MaxKey
Objs == 1..MaxObjs

\* ------------------------------------------------------------- numbers
Abs(n) == IF n < 0 THEN -n ELSE n

RECURSIVE GCD(_, _)
GCD(a, b) == IF b = 0 THEN a ELSE GCD(b, a % b)

\* The rational n/d in lowest terms with a positive denominator.
Rat(n, d) ==
    LET g == GCD(Abs(n), Abs(d))
        s == IF d < 0 THEN -1 ELSE 1
    IN  <<(s * n) \div g, (s * d) \div g>>

Num(n) == <<n, 1>>
NoVal == <<0, 0>>
IsIntegral(v) == v[2] = 1

RLess(a, b) == a[1] * b[2] < b[1] * a[2]
RAdd(a, b) == Rat(a[1] * b[2] + b[1] * a[2], a[2] * b[2])
RSub(a, b) == Rat(a[1] * b[2] - b[1] * a[2], a[2] * b[2])
RMul(a, b) == Rat(a[1] * b[1], a[2] * b[2])
RDiv(a, b) == Rat(a[1] * b[2], a[2] * b[1])

RECURSIVE IPow(_, _)
IPow(b, e) == IF e = 0 THEN 1 ELSE b * IPow(b, e - 1)

\* a ** e for an integral exponent e (a negative exponent inverts the base).
RPow(a, e) ==
    IF e[1] >= 0 THEN Rat(IPow(a[1], e[1]), IPow(a[2], e[1]))
    ELSE Rat(IPow(a[2], -e[1]), IPow(a[1], -e[1]))

\* Values the constructors' inputs, the scalar operands and the external
\* libraries' results are drawn from.
InitVals == {Num(-1), Num(2)}
Scalars == {Num(-1), Num(0), Num(2)}

\* ------------------------------------------------------ the operators
Ops == {"add", "sub", "mul", "div", "pow"}

\* The exception `y op z` raises on numbers, "none" when it evaluates.
OpError(op, y, z) ==
    CASE op = "div" /\ z[1] = 0 -> "ZeroDivisionError"
      [] op = "pow" /\ y[1] = 0 /\ z[1] < 0 -> "ZeroDivisionError"
      [] OTHER -> "none"

\* y + z, y - z, y * z, float(y) / z, y ** z.
ApplyOp(op, y, z) ==
    CASE op = "add" -> RAdd(y, z)
      [] op = "sub" -> RSub(y, z)
      [] op = "mul" -> RMul(y, z)
      [] op = "div" -> RDiv(y, z)
      [] op = "pow" -> RPow(y, z)

\* ------------------------------------------------------------- points
\* Python's tuple comparison of two (x, y) points.
PointLess(p, q) == p[1] < q[1] \/ (p[1] = q[1] /\ RLess(p[2], q[2]))

\* p inserted into the sorted list s after every element not greater than it.
RECURSIVE Insert(_, _)
Insert(p, s) ==
    IF s = <<>> THEN <<p>>
    ELSE IF PointLess(p, s[1]) THEN <<p>> \o s
    ELSE <<s[1]>> \o Insert(p, Tail(s))

\* sorted(points)
RECURSIVE Sorted(_)
Sorted(s) ==
    IF s = <<>> THEN <<>>
    ELSE Insert(s[Len(s)], Sorted(SubSeq(s, 1, Len(s) - 1)))

\* [ point[0] for point in points ] and [ point[1] for point in points ]
XS(pts) == [i \in 1..Len(pts) |-> pts[i][1]]
YS(pts) == [i \in 1..Len(pts) |-> pts[i][2]]
KeySet(pts) == {pts[i][1] : i \in 1..Len(pts)}

\* zip(xs, ys): as long as the shorter list.
Zip(xs, ys) ==
    LET n == IF Len(xs) < Len(ys) THEN Len(xs) ELSE Len(ys)
    IN  [i \in 1..n |-> <<xs[i], ys[i]>>]

\* dict(points)[x]: the value of the last point whose key is x.
Lookup(pts, x) ==
    LET idx == {i \in 1..Len(pts) : pts[i][1] = x}
    IN  pts[CHOOSE i \in idx : \A j \in idx : j <= i][2]

\* mapping.items(): the order is the dict's own; descending keys here, the
\* constructor sorts whatever order it is given.
RECURSIVE DictItems(_)
DictItems(m) ==
    IF DOMAIN m = {} THEN <<>>
    ELSE LET k == CHOOSE x \in DOMAIN m : \A y \in DOMAIN m : y <= x
         IN  <<<<k, m[k]>>>> \o DictItems([x \in DOMAIN m \ {k} |-> m[x]])

\* ----------------------------------------------------------- the state
VARIABLES
    points,   \* points[o]: the `points` attribute of series object o
    kind,     \* kind[o]: the class of object o, "Series" or "TimeSeries"
    nobj,     \* objects constructed so far: 1..nobj are alive
    last,     \* the last call: what was called, on what, and how it ended
    before,   \* the heap (points, nobj, groups) as the last call found it
    steps,    \* calls made so far
    groups    \* the DataFrame's dict: label -> series object (0: None)

vars == <<points, kind, nobj, last, before, steps, groups>>

Kinds == {"Series", "TimeSeries"}
Alive == 1..nobj

\* A call's record.  recv/operand/ret are object ids (0: none; a ret of 0 is
\* Python's None or no return at all); calls lists the external library
\* calls the operation made, in order, and ext the values the external
\* library handed back (fitted or forecasted).  value is the plain value
\* returned, with its type: a number for series[x], a list of keys for
\* group.timestamps.  kw is the **kwargs dict of rename.
NoValue == [type |-> "none", val |-> <<>>]

\* The empty dict, {}.
EmptyDict == [k \in {} |-> 0]
\* dup / unsorted describe a constructor's pair list: whether two of its pairs
\* share a key, and whether it was handed over out of key order.
Call(op, recv) ==
    [op |-> op, recv |-> recv, operand |-> 0, scalar |-> NoVal, n |-> 0,
     method |-> "", freq |-> 0, dup |-> FALSE, unsorted |-> FALSE,
     ext |-> <<>>, ret |-> 0, err |-> "none", calls |-> <<>>,
     value |-> NoValue, kw |-> EmptyDict]

\* Every call is one step: it leaves a snapshot of the heap it started from.
Snapshot == [points |-> points, nobj |-> nobj, groups |-> groups]

\* A call on a series: the group's dict is not touched.
Step ==
    /\ before' = Snapshot
    /\ steps' = steps + 1
    /\ UNCHANGED groups

\* ------------------------------------------------------- construction
PairLists == UNION {[1..n -> Keys \X InitVals] : n \in 0..MaxLen}
Mappings == UNION {[K -> InitVals] : K \in {S \in SUBSET Keys : Cardinality(S) <= MaxLen}}

HasDupKeys(pts) == \E i, j \in 1..Len(pts) : i < j /\ pts[i][1] = pts[j][1]
OutOfOrder(pts) == \E i, j \in 1..Len(pts) : i < j /\ pts[j][1] < pts[i][1]

\* A constructor that stores the list as handed over.
SeriesInitUnsorted(pts) == pts

\* Series.__init__ / TimeSeries.__init__ on a list of tuples.
SeriesInit(pts) == Sorted(pts)

\* ... and on a dict.
SeriesInitDict(m) == SeriesInit(DictItems(m))

\* The heap after `cls(pts)` has built a new object.
Alloc(cls, pts) ==
    /\ points' = [points EXCEPT ![nobj + 1] = SeriesInit(pts)]
    /\ kind' = [kind EXCEPT ![nobj + 1] = cls]
    /\ nobj' = nobj + 1

NewFromPairs(cls, input) ==
    /\ steps < MaxSteps /\ nobj < MaxInputs
    /\ Alloc(cls, input)
    /\ last' = [Call("init", 0) EXCEPT !.dup = HasDupKeys(input),
                                       !.unsorted = OutOfOrder(input),
                                       !.ret = nobj + 1]
    /\ Step

NewFromDict(cls, m) ==
    /\ steps < MaxSteps /\ nobj < MaxInputs
    /\ points' = [points EXCEPT ![nobj + 1] = SeriesInitDict(m)]
    /\ kind' = [kind EXCEPT ![nobj + 1] = cls]
    /\ nobj' = nobj + 1
    /\ last' = [Call("init_dict", 0) EXCEPT !.ret = nobj + 1]
    /\ Step

\* --------------------------------------------------------- arithmetic
\* The right-hand operand as the operator's isinstance test sees it: a number
\* ("scalar"), a series of the receiver's own class ("series", with its
\* points), or any other object ("object": a series of the other class).
Operands ==
    [tag : {"scalar"}, val : Scalars, obj : {0}]
        \cup [tag : {"series"}, val : {NoVal}, obj : Alive]

ArgIn(heap, cls, operand) ==
    IF operand.tag = "scalar" THEN [tag |-> "scalar", val |-> operand.val, pts |-> <<>>]
    ELSE IF kind[operand.obj] = cls
         THEN [tag |-> "series", val |-> NoVal, pts |-> heap[operand.obj]]
         ELSE [tag |-> "object", val |-> NoVal, pts |-> <<>>]

Arg(cls, operand) == ArgIn(points, cls, operand)

\* The points the comprehension iterates: all of them, or, against a series,
\* those whose x is in the lookup (`if x in lookup`).
Selected(pts, arg) ==
    IF arg.tag = "series"
    THEN SelectSeq(pts, LAMBDA p : p[1] \in KeySet(arg.pts))
    ELSE pts

\* The right-hand number for the point at x: the scalar, or lookup[x].
Rhs(arg, x) == IF arg.tag = "series" THEN Lookup(arg.pts, x) ELSE arg.val

\* The exception the comprehension raises: that of its first failing point.
ArithError(op, pts, arg) ==
    IF arg.tag = "object" THEN (IF pts = <<>> THEN "none" ELSE "TypeError")
    ELSE LET el == Selected(pts, arg)
             bad == {i \in 1..Len(el) : OpError(op, el[i][2], Rhs(arg, el[i][1])) # "none"}
             first == CHOOSE i \in bad : \A j \in bad : i <= j
         IN  IF bad = {} THEN "none"
             ELSE OpError(op, el[first][2], Rhs(arg, el[first][1]))

\* A left join: points the lookup lacks are kept as they are.
ArithPointsLeftJoin(op, pts, arg) ==
    IF arg.tag # "series"
    THEN [i \in 1..Len(pts) |-> <<pts[i][1], ApplyOp(op, pts[i][2], arg.val)>>]
    ELSE [i \in 1..Len(pts) |->
            IF pts[i][1] \in KeySet(arg.pts)
            THEN <<pts[i][1], ApplyOp(op, pts[i][2], Lookup(arg.pts, pts[i][1]))>>
            ELSE pts[i]]

\* The operands the wrong way round: operand op y.
ArithPointsSwapped(op, pts, arg) ==
    IF arg.tag = "object" THEN <<>>
    ELSE LET el == Selected(pts, arg)
         IN  [i \in 1..Len(el) |-> <<el[i][1], ApplyOp(op, Rhs(arg, el[i][1]), el[i][2])>>]

\* [ ( x, y op operand ) for x, y in self.points ]  and
\* [ ( x, y op lookup[x] ) for x, y in self.points if x in lookup ]
ArithPoints(op, pts, arg) ==
    IF arg.tag = "object" THEN <<>>
    ELSE LET el == Selected(pts, arg)
         IN  [i \in 1..Len(el) |-> <<el[i][1], ApplyOp(op, el[i][2], Rhs(arg, el[i][1]))>>]

\* The model evaluates ** for integral exponents of magnitude <= MaxExp only.
InRange(op, pts, arg) ==
    op = "pow" /\ arg.tag # "object" =>
        \A i \in 1..Len(Selected(pts, arg)) :
            LET z == Rhs(arg, Selected(pts, arg)[i][1])
            IN  IsIntegral(z) /\ Abs(z[1]) <= MaxExp

\* A non-mutating operator that also stores its result in the receiver.
BinOpInPlace(op, r, operand) ==
    LET arg == Arg(kind[r], operand)
        err == ArithError(op, points[r], arg)
        res == ArithPoints(op, points[r], arg)
        call == [Call(op, r) EXCEPT !.operand = operand.obj, !.scalar = operand.val]
    IN  /\ steps < MaxSteps
        /\ InRange(op, points[r], arg)
        /\ IF err = "none"
           THEN /\ nobj < MaxObjs
                /\ points' = [points EXCEPT ![r] = res, ![nobj + 1] = SeriesInit(res)]
                /\ kind' = [kind EXCEPT ![nobj + 1] = kind[r]]
                /\ nobj' = nobj + 1
                /\ last' = [call EXCEPT !.ret = nobj + 1]
           ELSE /\ UNCHANGED <<points, kind, nobj>>
                /\ last' = [call EXCEPT !.err = err]
        /\ Step

\* __add__, __sub__, __mul__, __div__, __pow__: a new series of the
\* receiver's class.
BinOp(op, r, operand) ==
    LET arg == Arg(kind[r], operand)
        err == ArithError(op, points[r], arg)
        call == [Call(op, r) EXCEPT !.operand = operand.obj, !.scalar = operand.val]
    IN  /\ steps < MaxSteps
        /\ InRange(op, points[r], arg)
        /\ IF err = "none"
           THEN /\ nobj < MaxObjs
                /\ Alloc(kind[r], ArithPoints(op, points[r], arg))
                /\ last' = [call EXCEPT !.ret = nobj + 1]
           ELSE /\ UNCHANGED <<points, kind, nobj>>
                /\ last' = [call EXCEPT !.err = err]
        /\ Step

\* A mutating operator that builds and returns a new series instead.
IBinOpCopy(op, r, operand) ==
    LET arg == Arg(kind[r], operand)
        err == ArithError(op, points[r], arg)
        call == [Call("i" \o op, r) EXCEPT !.operand = operand.obj, !.scalar = operand.val]
    IN  /\ steps < MaxSteps
        /\ InRange(op, points[r], arg)
        /\ IF err = "none"
           THEN /\ nobj < MaxObjs
                /\ Alloc(kind[r], ArithPoints(op, points[r], arg))
                /\ last' = [call EXCEPT !.ret = nobj + 1]
           ELSE /\ UNCHANGED <<points, kind, nobj>>
                /\ last' = [call EXCEPT !.err = err]
        /\ Step

\* The points an in-place loop leaves behind when it stops at the first
\* failing point: those before it updated, the rest as they were.
PartialPoints(op, pts, arg) ==
    IF arg.tag = "object" THEN pts
    ELSE LET el == Selected(pts, arg)
             bad == {i \in 1..Len(el) : OpError(op, el[i][2], Rhs(arg, el[i][1])) # "none"}
         IN  [i \in 1..Len(el) |->
                 IF \A j \in bad : i < j
                 THEN <<el[i][1], ApplyOp(op, el[i][2], Rhs(arg, el[i][1]))>>
                 ELSE el[i]]

\* A mutating operator that updates the receiver point by point.
IBinOpPartial(op, r, operand) ==
    LET arg == Arg(kind[r], operand)
        err == ArithError(op, points[r], arg)
        call == [Call("i" \o op, r) EXCEPT !.operand = operand.obj, !.scalar = operand.val]
    IN  /\ steps < MaxSteps
        /\ InRange(op, points[r], arg)
        /\ IF err = "none"
           THEN /\ points' = [points EXCEPT ![r] = ArithPoints(op, points[r], arg)]
                /\ last' = [call EXCEPT !.ret = r]
           ELSE /\ points' = [points EXCEPT ![r] = PartialPoints(op, points[r], arg)]
                /\ last' = [call EXCEPT !.err = err]
        /\ UNCHANGED <<kind, nobj>>
        /\ Step

\* __iadd__, __isub__, __imul__, __idiv__, __ipow__: self.points is
\* replaced and self returned.  The list is built before it is assigned, so
\* an exception raised while building it leaves self.points as it was.
IBinOp(op, r, operand) ==
    LET arg == Arg(kind[r], operand)
        err == ArithError(op, points[r], arg)
        call == [Call("i" \o op, r) EXCEPT !.operand = operand.obj, !.scalar = operand.val]
    IN  /\ steps < MaxSteps
        /\ InRange(op, points[r], arg)
        /\ IF err = "none"
           THEN /\ points' = [points EXCEPT ![r] = ArithPoints(op, points[r], arg)]
                /\ last' = [call EXCEPT !.ret = r]
           ELSE /\ UNCHANGED points
                /\ last' = [call EXCEPT !.err = err]
        /\ UNCHANGED <<kind, nobj>>
        /\ Step

\* ---------------------------------------------------------------- map
Fns == {"id", "neg"}
ApplyFn(fn, y) == IF fn = "neg" THEN RSub(Num(0), y) ELSE y

\* [ (x, fn(y)) for x, y in self.points ]
MapPoints(fn, pts) == [i \in 1..Len(pts) |-> <<pts[i][1], ApplyFn(fn, pts[i][2])>>]

\* Series.map / TimeSeries.map
Map(r, fn) ==
    /\ steps < MaxSteps /\ nobj < MaxObjs
    /\ Alloc(kind[r], MapPoints(fn, points[r]))
    /\ last' = [Call("map", r) EXCEPT !.method = fn, !.ret = nobj + 1]
    /\ Step

\* -------------------------------------------------------------- trend
\* What the external libraries may hand back: n numbers.
ExtVals == InitVals
ExtResults(n) == [1..n -> ExtVals]

\* trend_coefficients without its emptiness test.
TrendCoefficientsNoCheck(pts) == "none"

\* trend_coefficients: the emptiness test comes before numpy is touched.
TrendCoefficientsError(pts) == IF Len(pts) = 0 THEN "ArithmeticError" ELSE "none"

\* zip(x, trend_y)
TrendPoints(pts, trend_y) == Zip(XS(pts), trend_y)

\* Series.trend(order, positive) and TimeSeries.trend(order).  `positive` is
\* "unset" when the caller leaves it out; TimeSeries.trend has no such
\* parameter, so passing one is a TypeError raised by the call itself.
Trend(r, positive) ==
    LET call == [Call("trend", r) EXCEPT !.method = positive]
        sigErr == IF kind[r] = "TimeSeries" /\ positive # "unset"
                  THEN "TypeError" ELSE "none"
        err == IF sigErr # "none" THEN sigErr ELSE TrendCoefficientsError(points[r])
    IN  /\ steps < MaxSteps
        /\ IF err = "none"
           THEN /\ nobj < MaxObjs
                /\ \E trend_y \in ExtResults(Len(points[r])) :
                     /\ Alloc(kind[r], TrendPoints(points[r], trend_y))
                     /\ last' = [call EXCEPT
                                    !.ret = nobj + 1, !.ext = trend_y,
                                    !.calls = <<"numpy.polyfit", "numpy.polyval">>]
           ELSE /\ UNCHANGED <<points, kind, nobj>>
                /\ last' = [call EXCEPT !.err = err]
        /\ Step

\* ----------------------------------------------------- moving average
SIMPLE == 0

\* Python's seq[start:stop] on a list indexed from 1 here: a negative bound
\* counts from the end, and both are clamped to the list.
PySlice(seq, start, stop) ==
    LET n == Len(seq)
        norm(i) == IF i < 0 THEN (IF n + i < 0 THEN 0 ELSE n + i)
                   ELSE (IF i > n THEN n ELSE i)
        a == norm(start)
        b == norm(stop)
    IN  IF a >= b THEN <<>> ELSE SubSeq(seq, a + 1, b)

RECURSIVE SumSeq(_)
SumSeq(s) == IF s = <<>> THEN Num(0) ELSE RAdd(s[1], SumSeq(Tail(s)))

\* numpy.convolve(y, numpy.ones(window) / float(window)): the full
\* convolution, Len(y) + window - 1 numbers.
Convolve(y, window) ==
    [k \in 1..(Len(y) + window - 1) |->
        LET lo == IF k - window + 1 < 1 THEN 1 ELSE k - window + 1
            hi == IF k > Len(y) THEN Len(y) ELSE k
        IN  RDiv(SumSeq(SubSeq(y, lo, hi)), Num(window))]

\* self.x[window-1:]
MaX(pts, window) == PySlice(XS(pts), window - 1, Len(pts))

\* numpy.convolve(self.y, weights)[window-1:-(window-1)].tolist()
MaY(pts, window) == PySlice(Convolve(YS(pts), window), window - 1, -(window - 1))

\* zip(ma_x, ma_y)
MovingAveragePoints(pts, window) == Zip(MaX(pts, window), MaY(pts, window))

\* What moving_average raises.  The length test is first; an unknown method
\* leaves `weights` unbound; numpy refuses an empty weights array.
MovingAverageError(pts, window, method) ==
    CASE Len(pts) < window -> "ArithmeticError"
      [] method # SIMPLE -> "UnboundLocalError"
      [] window = 0 -> "ValueError"
      [] OTHER -> "none"

\* The library calls made before moving_average returns or raises.
MovingAverageCalls(pts, window, method) ==
    CASE Len(pts) < window -> <<>>
      [] method # SIMPLE -> <<"LazyImport.numpy">>
      [] OTHER -> <<"LazyImport.numpy", "numpy.ones", "numpy.convolve">>

\* Series.moving_average / TimeSeries.moving_average
MovingAverage(r, window, method) ==
    LET err == MovingAverageError(points[r], window, method)
        call == [Call("moving_average", r) EXCEPT
                    !.n = window, !.method = IF method = SIMPLE THEN "simple" ELSE "other",
                    !.calls = MovingAverageCalls(points[r], window, method)]
    IN  /\ steps < MaxSteps
        /\ IF err = "none"
           THEN /\ nobj < MaxObjs
                /\ Alloc(kind[r], MovingAveragePoints(points[r], window))
                /\ last' = [call EXCEPT !.ret = nobj + 1]
           ELSE /\ UNCHANGED <<points, kind, nobj>>
                /\ last' = [call EXCEPT !.err = err]
        /\ Step

\* ----------------------------------------------------------- forecast
ETS == "ets"
ARIMA == "arima"
Methods == {ARIMA, ETS, "huh"}
Frequencies == {0, 4}      \* 0 stands for frequency=None

\* An interval taken between a point and itself.
IntervalSamePoint(pts) == IF Len(pts) <= 1 THEN 0 ELSE pts[1][1] - pts[1][1]

\* TimeSeries.interval; 0 stands for None (never used by forecast: it has
\* at least two points when it reads the interval).
Interval(pts) == IF Len(pts) <= 1 THEN 0 ELSE pts[2][1] - pts[1][1]

\* Forecast keys counted from xrange(0, horizon): the first repeats last_x.
ForecastXFromZero(pts, horizon) ==
    [i \in 1..horizon |-> pts[Len(pts)][1] + (i - 1) * Interval(pts)]

\* [ last_x + x * interval for x in xrange(1, horizon+1) ]
ForecastX(pts, horizon) ==
    [i \in 1..horizon |-> pts[Len(pts)][1] + i * Interval(pts)]

\* zip(forecast_x, forecast_y)
ForecastPoints(pts, horizon, forecast_y) == Zip(ForecastX(pts, horizon), forecast_y)

ForecastError(pts, method) ==
    CASE Len(pts) <= 1 -> "ArithmeticError"
      [] method \notin {ARIMA, ETS} -> "ValueError"
      [] OTHER -> "none"

\* The library calls forecast makes, in the order of its statements, up to
\* its return or its raise.
ForecastCalls(pts, method, frequency) ==
    IF Len(pts) <= 1 THEN <<>>
    ELSE <<"LazyImport.rpy2", "numpy.array">>
         \o (IF frequency # 0 THEN <<"R.ts">> ELSE <<>>)
         \o (CASE method = ARIMA -> <<"R.forecast.auto_arima", "R.forecast.forecast">>
               [] method = ETS -> <<"R.forecast.ets", "R.forecast.forecast">>
               [] OTHER -> <<>>)

\* TimeSeries.forecast(horizon, method, frequency)
Forecast(r, horizon, method, frequency) ==
    LET err == ForecastError(points[r], method)
        call == [Call("forecast", r) EXCEPT
                    !.n = horizon, !.method = method, !.freq = frequency,
                    !.calls = ForecastCalls(points[r], method, frequency)]
    IN  /\ steps < MaxSteps
        /\ kind[r] = "TimeSeries"
        /\ IF err = "none"
           THEN /\ nobj < MaxObjs
                /\ \E forecast_y \in ExtResults(horizon) :
                     /\ Alloc("TimeSeries", ForecastPoints(points[r], horizon, forecast_y))
                     /\ last' = [call EXCEPT !.ret = nobj + 1, !.ext = forecast_y]
           ELSE /\ UNCHANGED <<points, kind, nobj>>
                /\ last' = [call EXCEPT !.err = err]
        /\ Step

\* ------------------------------------------------------ round and abs
\* abs(y)
RAbs(v) == <<Abs(v[1]), v[2]>>

\* round(y, n): to n decimal places, a half rounded away from zero.
RRound(v, n) ==
    LET scale == IPow(10, n)
        q == Abs(v[1]) * scale
        r == (2 * q + v[2]) \div (2 * v[2])
    IN  Rat((IF v[1] < 0 THEN -1 ELSE 1) * r, scale)

\* [ (x, abs(y)) for x, y in self.points ]
AbsPoints(pts) == [i \in 1..Len(pts) |-> <<pts[i][1], RAbs(pts[i][2])>>]

\* [ (x, round(y, n)) for x, y in self.points ]
RoundPoints(pts, n) == [i \in 1..Len(pts) |-> <<pts[i][1], RRound(pts[i][2], n)>>]

\* abs(series): Series.__abs__ assigns self.points and returns nothing;
\* TimeSeries.__abs__ returns a new TimeSeries.
AbsCall(r) ==
    /\ steps < MaxSteps
    /\ IF kind[r] = "Series"
       THEN /\ points' = [points EXCEPT ![r] = AbsPoints(points[r])]
            /\ UNCHANGED <<kind, nobj>>
            /\ last' = Call("abs", r)
       ELSE /\ nobj < MaxObjs
            /\ Alloc("TimeSeries", AbsPoints(points[r]))
            /\ last' = [Call("abs", r) EXCEPT !.ret = nobj + 1]
    /\ Step

\* The decimal places a call may pass; -1 stands for an argument left out.
Places == {-1, 0, 1}

\* series.__round__(n): Series.__round__(self, n) assigns self.points and
\* returns nothing (n is required); TimeSeries.__round__(self, n=0) returns
\* a new TimeSeries.
DunderRound(r, n) ==
    LET call == [Call("__round__", r) EXCEPT !.n = n]
    IN  /\ steps < MaxSteps
        /\ IF kind[r] = "Series"
           THEN IF n = -1
                THEN /\ UNCHANGED <<points, kind, nobj>>
                     /\ last' = [call EXCEPT !.err = "TypeError"]
                ELSE /\ points' = [points EXCEPT ![r] = RoundPoints(points[r], n)]
                     /\ UNCHANGED <<kind, nobj>>
                     /\ last' = call
           ELSE /\ nobj < MaxObjs
                /\ Alloc("TimeSeries", RoundPoints(points[r], IF n = -1 THEN 0 ELSE n))
                /\ last' = [call EXCEPT !.ret = nobj + 1]
        /\ Step

\* series.round(...): Series.round(self) takes no n, runs __round__(0) and
\* returns self; TimeSeries.round(self, n=0) returns self.__round__(n).
RoundCall(r, n) ==
    LET call == [Call("round", r) EXCEPT !.n = n]
    IN  /\ steps < MaxSteps
        /\ IF kind[r] = "Series"
           THEN IF n # -1
                THEN /\ UNCHANGED <<points, kind, nobj>>
                     /\ last' = [call EXCEPT !.err = "TypeError"]
                ELSE /\ points' = [points EXCEPT ![r] = RoundPoints(points[r], 0)]
                     /\ UNCHANGED <<kind, nobj>>
                     /\ last' = [call EXCEPT !.ret = r]
           ELSE /\ nobj < MaxObjs
                /\ Alloc("TimeSeries", RoundPoints(points[r], IF n = -1 THEN 0 ELSE n))
                /\ last' = [call EXCEPT !.ret = nobj + 1]
        /\ Step

\* ----------------------------------------------------------- indexing
\* What series[x] is asked for: 0 is never a key here, 1..MaxKey may be.
Indexes == 0..MaxKey

\* An indexing that hands back a default for a key it lacks.
GetItemErrorDefaulting(pts, x) == "none"

\* dict(self.points)[x] raises KeyError for an x that is no key.
GetItemError(pts, x) == IF x \in KeySet(pts) THEN "none" ELSE "KeyError"

\* dict(self.points)[x]
GetItemValue(pts, x) ==
    IF x \in KeySet(pts) THEN [type |-> "number", val |-> Lookup(pts, x)] ELSE NoValue

\* Series.__getitem__ / TimeSeries.__getitem__
GetItem(r, x) ==
    LET err == GetItemError(points[r], x)
        call == [Call("getitem", r) EXCEPT !.n = x]
    IN  /\ steps < MaxSteps
        /\ last' = IF err = "none"
                   THEN [call EXCEPT !.value = GetItemValue(points[r], x)]
                   ELSE [call EXCEPT !.err = err]
        /\ UNCHANGED <<points, kind, nobj>>
        /\ Step

\* ------------------------------------------------------ specification
Init ==
    /\ points = [o \in Objs |-> <<>>]
    /\ kind = [o \in Objs |-> "none"]
    /\ nobj = 0
    /\ last = Call("none", 0)
    /\ groups = EmptyDict
    /\ before = [points |-> [o \in Objs |-> <<>>], nobj |-> 0, groups |-> EmptyDict]
    /\ steps = 0

Next ==
    \/ \E cls \in Kinds, input \in PairLists : NewFromPairs(cls, input)
    \/ \E cls \in Kinds, m \in Mappings : NewFromDict(cls, m)
    \/ \E op \in Ops, r \in Alive, operand \in Operands : BinOp(op, r, operand)
    \/ \E op \in Ops, r \in Alive, operand \in Operands : IBinOp(op, r, operand)
    \/ \E r \in Alive, fn \in Fns : Map(r, fn)
    \/ \E r \in Alive, positive \in {"unset", "true", "false"} : Trend(r, positive)
    \/ \E r \in Alive, window \in 0..MaxWindow, method \in {SIMPLE, 1} :
            MovingAverage(r, window, method)
    \/ \E r \in Alive, horizon \in 1..MaxHorizon, method \in Methods,
          frequency \in Frequencies :
            Forecast(r, horizon, method, frequency)
    \/ \E r \in Alive : AbsCall(r)
    \/ \E r \in Alive, n \in Places : DunderRound(r, n)
    \/ \E r \in Alive, n \in Places : RoundCall(r, n)
    \/ \E r \in Alive, x \in Indexes : GetItem(r, x)

Spec == Init /\ [][Next]_vars

\* ---------------------------------------------------------- the group
\* DataFrame: self.groups is a dict from label to member.  A member is a
\* series object, or None once abs() has stored what Series.__abs__ returns.
Labels == {"a", "b", "c"}
None == 0

\* d[k] = v and del d[k] on a dict.
DictSet(d, k, v) == [x \in DOMAIN d \cup {k} |-> IF x = k THEN v ELSE d[x]]
DictDel(d, k) == [x \in DOMAIN d \ {k} |-> d[x]]

\* The dicts with keys from K and values from V.
Dicts(K, V) == UNION {[S -> V] : S \in SUBSET K}

\* The orders in which a dict may hand out the keys K (iteritems).
Orders(K) ==
    {o \in [1..Cardinality(K) -> K] : \A i, j \in 1..Cardinality(K) : i # j => o[i] # o[j]}

\* A call on the group.
GroupStep ==
    /\ before' = Snapshot
    /\ steps' = steps + 1

\* group[key] = value
SetItem(key, value) ==
    /\ steps < MaxGroupSteps
    /\ groups' = DictSet(groups, key, value)
    /\ UNCHANGED <<points, kind, nobj>>
    /\ last' = [Call("setitem", 0) EXCEPT !.method = key, !.operand = value]
    /\ GroupStep

\* del group[key]
DelItem(key) ==
    /\ steps < MaxGroupSteps
    /\ IF key \in DOMAIN groups
       THEN /\ groups' = DictDel(groups, key)
            /\ last' = [Call("delitem", 0) EXCEPT !.method = key]
       ELSE /\ UNCHANGED groups
            /\ last' = [Call("delitem", 0) EXCEPT !.method = key, !.err = "KeyError"]
    /\ UNCHANGED <<points, kind, nobj>>
    /\ GroupStep

\* ------------------------------------------------------------- rename
\* The **kwargs of rename: up to MaxPairs pairs old=new.
RenameArgs ==
    {kw \in Dicts(Labels, Labels) : Cardinality(DOMAIN kw) <= MaxPairs}

\* A rename that copies the member to the new label and keeps the old one.
RenameOneKeepOld(g, old, new) ==
    IF old \in DOMAIN g THEN DictSet(g, new, g[old]) ELSE g

\* if old in self.groups:
\*     self.groups[new] = self.groups[old]
\*     del self.groups[old]
RenameOne(g, old, new) ==
    IF old \in DOMAIN g THEN DictDel(DictSet(g, new, g[old]), old) ELSE g

\* for old, new in kwargs.iteritems(): ...  in the order the dict hands out.
RECURSIVE RenameAll(_, _, _)
RenameAll(g, kw, order) ==
    IF order = <<>> THEN g
    ELSE RenameAll(RenameOne(g, order[1], kw[order[1]]), kw, Tail(order))

\* DataFrame.rename(**kwargs); the pairs come in the kwargs dict's own order.
Rename(kw, order) ==
    /\ steps < MaxGroupSteps
    /\ groups' = RenameAll(groups, kw, order)
    /\ UNCHANGED <<points, kind, nobj>>
    /\ last' = [Call("rename", 0) EXCEPT !.kw = kw]
    /\ GroupStep

\* --------------------------------------------------- group round, abs
\* The heap a broadcast works on, member after member.
Heap == [points |-> points, kind |-> kind, nobj |-> nobj, groups |-> groups, err |-> "none"]

\* A member call that returns a new TimeSeries holding pts, stored at key.
StoreNew(h, key, pts) ==
    [h EXCEPT !.points[h.nobj + 1] = SeriesInit(pts),
              !.kind[h.nobj + 1] = "TimeSeries",
              !.nobj = h.nobj + 1,
              !.groups[key] = h.nobj + 1]

\* self.groups[key] = series.round()
\* Series.round() rounds its own points and returns itself; TimeSeries.round()
\* returns a new TimeSeries; None has no round.
MemberRound(h, key) ==
    LET o == h.groups[key]
    IN  IF o = None THEN [h EXCEPT !.err = "AttributeError"]
        ELSE IF h.kind[o] = "Series"
        THEN [h EXCEPT !.points[o] = RoundPoints(h.points[o], 0)]
        ELSE StoreNew(h, key, RoundPoints(h.points[o], 0))

\* self.groups[key] = abs(series)
\* Series.__abs__ takes the absolute values of its own points and returns
\* None; TimeSeries.__abs__ returns a new TimeSeries; abs(None) is a TypeError.
MemberAbs(h, key) ==
    LET o == h.groups[key]
    IN  IF o = None THEN [h EXCEPT !.err = "TypeError"]
        ELSE IF h.kind[o] = "Series"
        THEN [h EXCEPT !.points[o] = AbsPoints(h.points[o]), !.groups[key] = None]
        ELSE StoreNew(h, key, AbsPoints(h.points[o]))

\* for key, series in self.groups.iteritems(): ...  up to the first exception.
RECURSIVE Broadcast(_, _, _)
Broadcast(fn, h, order) ==
    IF order = <<>> \/ h.err # "none" THEN h
    ELSE Broadcast(fn, IF fn = "abs" THEN MemberAbs(h, order[1])
                       ELSE MemberRound(h, order[1]), Tail(order))

\* The new objects a broadcast may need: one per TimeSeries member.
Needed == Cardinality({l \in DOMAIN groups :
                          groups[l] # None /\ kind[groups[l]] = "TimeSeries"})

\* DataFrame.round() -> self.__round__(0), and abs(group) -> __abs__():
\* both return the group itself.
GroupBroadcast(fn, order) ==
    LET h == Broadcast(fn, Heap, order)
    IN  /\ steps < MaxGroupSteps
        /\ nobj + Needed <= MaxObjs
        /\ points' = h.points /\ kind' = h.kind /\ nobj' = h.nobj /\ groups' = h.groups
        /\ last' = [Call("group_" \o fn, 0) EXCEPT !.err = h.err]
        /\ GroupStep

GroupRound(order) == GroupBroadcast("round", order)
GroupAbs(order) == GroupBroadcast("abs", order)

\* --------------------------------------------------------- timestamps
\* sorted(list(timestamps)) of a set of keys.
RECURSIVE SortedKeys(_)
SortedKeys(S) ==
    IF S = {} THEN <<>>
    ELSE LET k == CHOOSE x \in S : \A y \in S : x <= y
         IN  <<k>> \o SortedKeys(S \ {k})

\* series.timestamps: only a TimeSeries has the attribute (Series has x).
TimestampsError(g) ==
    IF \E l \in DOMAIN g : g[l] = None \/ kind[g[l]] # "TimeSeries"
    THEN "AttributeError" ELSE "none"

\* timestamps |= set(series.timestamps) over the members.
TimestampsUnion(g) == UNION {KeySet(points[g[l]]) : l \in {x \in DOMAIN g : g[x] # None}}

\* DataFrame.timestamps
Timestamps ==
    LET err == TimestampsError(groups)
    IN  /\ steps < MaxGroupSteps
        /\ last' = IF err = "none"
                   THEN [Call("timestamps", 0) EXCEPT
                            !.value = [type |-> "list",
                                       val |-> SortedKeys(TimestampsUnion(groups))]]
                   ELSE [Call("timestamps", 0) EXCEPT !.err = err]
        /\ UNCHANGED <<points, kind, nobj, groups>>
        /\ GroupStep

\* ------------------------------------------------ group specification
\* The series a group is built over: made from dicts of up to MaxKey keys.
GroupVals == {Rat(-3, 2)}
GroupSeries == {SeriesInitDict(m) : m \in Dicts(Keys, GroupVals)}

\* The labels a group is constructed with; "c" comes in by assignment or
\* rename only.
InitLabels == {"a", "b"}

\* The state after  group = DataFrame(**kwargs)  over MaxInputs series built
\* beforehand: __init__ stores dict(**kwargs) with self.update.
GroupInit ==
    /\ nobj = MaxInputs
    /\ points \in [Objs -> GroupSeries]
    /\ \A o \in Objs : o > MaxInputs => points[o] = <<>>
    /\ kind \in [Objs -> Kinds \cup {"none"}]
    /\ \A o \in Objs : kind[o] = "none" <=> o > MaxInputs
    /\ groups \in Dicts(InitLabels, 1..MaxInputs)
    /\ last = Call("none", 0)
    /\ before = [points |-> points, nobj |-> nobj, groups |-> groups]
    /\ steps = 0

GroupNext ==
    \/ \E key \in Labels, value \in Alive : SetItem(key, value)
    \/ \E key \in Labels : DelItem(key)
    \/ \E kw \in RenameArgs : \E order \in Orders(DOMAIN kw) : Rename(kw, order)
    \/ \E order \in Orders(DOMAIN groups) : GroupRound(order)
    \/ \E order \in Orders(DOMAIN groups) : GroupAbs(order)
    \/ Timestamps

GroupSpec == GroupInit /\ [][GroupNext]_vars

\* ------------------------------------------------------------ claims
\* The call `last` describes, read against the heap it started from.
IOps == {"iadd", "isub", "imul", "idiv", "ipow"}
BaseOp(name) ==
    CASE name = "iadd" -> "add" [] name = "isub" -> "sub" [] name = "imul" -> "mul"
      [] name = "idiv" -> "div" [] name = "ipow" -> "pow" [] OTHER -> name
PreA == before.points[last.recv]
PreB == before.points[last.operand]
Result == points[last.ret]
Returned == last.err = "none" /\ last.ret # 0
OldObjs == 1..before.nobj
SortedByKey(pts) == \A i, j \in 1..Len(pts) : i < j => pts[i][1] <= pts[j][1]
SeriesSeries == last.op \in Ops /\ last.operand # 0
SeriesScalar == last.op \in Ops /\ last.operand = 0

\* The inner join as C1 words it: the shared keys, ascending, each holding
\* A[k] op B[k].
InnerJoin(op, A, B, R) ==
    /\ KeySet(R) = KeySet(A) \cap KeySet(B)
    /\ SortedByKey(R)
    /\ \A k \in KeySet(R) : Lookup(R, k) = ApplyOp(op, Lookup(A, k), Lookup(B, k))

C2_SortedByKey == \A o \in Alive : SortedByKey(points[o])

C2_Witness ==
    /\ last.op \in IOps /\ last.err = "none"
    /\ Len(points[last.recv]) = 2
    /\ points[last.recv] # PreA
    /\ points[last.recv][1][1] < points[last.recv][2][1]

\* C3: a non-mutating operator changes no series that existed before the
\* call, and a mutating one changes none but its receiver.
C3_Frame ==
    /\ last.op \in Ops => \A o \in OldObjs : points[o] = before.points[o]
    /\ last.op \in IOps =>
          /\ nobj = before.nobj
          /\ \A o \in OldObjs : o # last.recv => points[o] = before.points[o]

C3_Witness ==
    /\ last.op \in IOps /\ last.err = "none"
    /\ last.operand \notin {0, last.recv}
    /\ points[last.operand] # <<>>
    /\ points[last.recv] # PreA

\* What `A op X` would have returned from the heap the call started from.
LastOperand ==
    IF last.operand = 0 THEN [tag |-> "scalar", val |-> last.scalar, obj |-> 0]
    ELSE [tag |-> "series", val |-> NoVal, obj |-> last.operand]
NonMutating ==
    Sorted(ArithPoints(BaseOp(last.op), PreA,
                       ArgIn(before.points, kind[last.recv], LastOperand)))

C6_AsStated == \A o \in Alive : ~HasDupKeys(points[o])

\* C6 amended: a series built from a mapping has unique keys; one built from
\* a pair list holds a repeated key exactly when the list does; and every
\* other call that starts from series with unique keys leaves every series,
\* its result included, with unique keys.
C6_UniqueKeysPreserved ==
    /\ last.op = "init_dict" => ~HasDupKeys(Result)
    /\ last.op = "init" => (HasDupKeys(Result) <=> last.dup)
    /\ last.op \notin {"none", "init", "init_dict"}
          /\ (\A o \in OldObjs : ~HasDupKeys(before.points[o]))
          => \A o \in Alive : ~HasDupKeys(points[o])

C6_Witness ==
    /\ last.op = "forecast" /\ Returned
    /\ Len(Result) = 2
    /\ \A o \in Alive : ~HasDupKeys(points[o])

\* C7 as stated: for 1 <= window <= count, moving_average(window) returns
\* count - window + 1 points, the i-th keyed by the receiver's point
\* window-1+i (the end of its window).
C7_AsStated ==
    last.op = "moving_average" /\ last.method = "simple"
        /\ 1 <= last.n /\ last.n <= Len(PreA)
    => /\ Returned
       /\ Len(Result) = Len(PreA) - last.n + 1
       /\ \A i \in 1..Len(Result) : Result[i][1] = PreA[last.n - 1 + i][1]

\* What the code does keep of C7: the same, for windows of two points or more.
C7_FromWindowTwo ==
    last.op = "moving_average" /\ last.method = "simple"
        /\ 2 <= last.n /\ last.n <= Len(PreA)
    => /\ Returned
       /\ Len(Result) = Len(PreA) - last.n + 1
       /\ \A i \in 1..Len(Result) : Result[i][1] = PreA[last.n - 1 + i][1]

\* A trend call the receiver's class accepts: TimeSeries.trend takes no
\* `positive`.
TrendAccepted == ~(kind[last.recv] = "TimeSeries" /\ last.method # "unset")

Undersized ==
    \/ last.op = "trend" /\ TrendAccepted /\ Len(PreA) = 0
    \/ last.op = "moving_average" /\ Len(PreA) < last.n
    \/ last.op = "forecast" /\ Len(PreA) <= 1

C9_AsStated ==
    last.op = "forecast" /\ Len(PreA) >= 2 /\ last.method \notin {"arima", "ets"}
    => last.err = "ValueError" /\ last.calls = <<>>

\* The forecast key i steps past the receiver's last key, the step being the
\* gap between its first two keys.
Gap == PreA[2][1] - PreA[1][1]
ExpectedKey(i) == PreA[Len(PreA)][1] + i * Gap

Transformed ==
    IF last.op = "abs" THEN AbsPoints(PreA)
    ELSE RoundPoints(PreA, IF last.n = -1 THEN 0 ELSE last.n)

\* C11 as stated: on a Series and on a TimeSeries, round(n) and abs() leave
\* the receiver holding the rounded / absolute values under unchanged keys
\* and return the receiver itself.
C11_AsStated ==
    last.op \in {"abs", "round"} =>
        /\ last.err = "none"
        /\ last.ret = last.recv
        /\ points[last.recv] = Transformed

\* C12 as stated: trend(order, positive=true) on a non-empty series returns
\* a series of the receiver's class with the receiver's keys, in order, and
\* no fitted value below 0, whatever the fit hands back.
C12_AsStated ==
    last.op = "trend" /\ last.method = "true" /\ Len(PreA) > 0 =>
        /\ Returned
        /\ kind[last.ret] = kind[last.recv]
        /\ XS(Result) = XS(PreA)
        /\ \A i \in 1..Len(Result) : ~RLess(Result[i][2], Num(0))

\* C16: series[k] returns a value the series stores at key k when k is one
\* of its keys (the only one when the keys are pairwise distinct), raises
\* KeyError and returns nothing when it is not, and changes no series.
C16_KeyLookup ==
    last.op = "getitem" =>
        /\ last.n \in KeySet(PreA) =>
              /\ last.err = "none" /\ last.value.type = "number"
              /\ \E i \in 1..Len(PreA) : PreA[i] = <<last.n, last.value.val>>
        /\ last.n \notin KeySet(PreA) =>
              last.err = "KeyError" /\ last.value = NoValue
        /\ nobj = before.nobj
        /\ \A o \in OldObjs : points[o] = before.points[o]

C16_Witness ==
    /\ last.op = "getitem" /\ last.err = "KeyError"
    /\ PreA # <<>> /\ last.n > 0

\* C17 as stated: series[p] for a position p, 0 <= p < length, returns the
\* (key, value) pair at position p of the sorted points, whether or not p is
\* a key.
C17_AsStated ==
    last.op = "getitem" /\ 0 <= last.n /\ last.n < Len(PreA) =>
        /\ last.err = "none"
        /\ last.value.type = "pair"
        /\ last.value.val = PreA[last.n + 1]

\* C20: a mutating operator that raises leaves the receiver's points, and
\* every other series, as they were, and returns nothing.
C20_FailureLeavesReceiver ==
    last.op \in IOps /\ last.err # "none" =>
        /\ points[last.recv] = PreA
        /\ \A o \in OldObjs : points[o] = before.points[o]
        /\ nobj = before.nobj
        /\ last.ret = 0

\* The failure comes at the second point: the first divides.
C20_Witness ==
    /\ last.op = "idiv" /\ last.err = "ZeroDivisionError"
    /\ last.operand \notin {0, last.recv}
    /\ Len(PreA) = 2
    /\ PreA[1][1] \in KeySet(PreB) /\ Lookup(PreB, PreA[1][1])[1] # 0

\* The group's dict as the last call found it, and the single pair of a
\* one-pair rename.
PreGroups == before.groups
OnePair == last.op = "rename" /\ Cardinality(DOMAIN last.kw) = 1
Old == CHOOSE k \in DOMAIN last.kw : TRUE
New == last.kw[Old]

\* C13: rename(old=new) with old # new: when old is a label, old is gone
\* afterwards, new maps to the very object old mapped to (whatever new held
\* before), every other label is as it was, and no series is altered; when
\* old is no label the group is unchanged.
C13_RenameMoves ==
    OnePair /\ Old # New =>
        /\ Old \in DOMAIN PreGroups =>
              /\ Old \notin DOMAIN groups
              /\ New \in DOMAIN groups /\ groups[New] = PreGroups[Old]
              /\ \A l \in Labels \ {Old, New} :
                    /\ l \in DOMAIN groups <=> l \in DOMAIN PreGroups
                    /\ l \in DOMAIN PreGroups => groups[l] = PreGroups[l]
        /\ Old \notin DOMAIN PreGroups => groups = PreGroups
        /\ points = before.points /\ nobj = before.nobj

C13_Witness ==
    /\ OnePair /\ Old # New
    /\ DOMAIN PreGroups = Labels
    /\ PreGroups[New] # PreGroups[Old]
    /\ DOMAIN groups = Labels \ {Old}

\* The points group round() / abs() are to leave in a member.
GroupTransformed(pts) ==
    IF last.op = "group_abs" THEN AbsPoints(pts) ELSE RoundPoints(pts, 0)

\* C14 as stated: group round() and abs() keep the labels, keep each label
\* on the object it held, and leave that object with the rounded / absolute
\* values of its points, for TimeSeries and Series members alike.
C14_AsStated ==
    last.op \in {"group_round", "group_abs"}
        /\ (\A l \in DOMAIN PreGroups : PreGroups[l] # None)
    => /\ last.err = "none"
       /\ DOMAIN groups = DOMAIN PreGroups
       /\ \A l \in DOMAIN PreGroups :
             /\ groups[l] = PreGroups[l]
             /\ points[PreGroups[l]] = GroupTransformed(before.points[PreGroups[l]])

\* C15 as stated: group.timestamps is the sorted, duplicate-free union of
\* the members' keys, for TimeSeries and Series members alike, and changes
\* neither the group nor a member.
C15_AsStated ==
    last.op = "timestamps"
        /\ (\A l \in DOMAIN PreGroups : PreGroups[l] # None)
    => /\ last.err = "none"
       /\ last.value.type = "list"
       /\ last.value.val =
             SortedKeys(UNION {KeySet(before.points[PreGroups[l]]) : l \in DOMAIN PreGroups})
       /\ groups = PreGroups
       /\ points = before.points /\ nobj = before.nobj

\* C18 as stated: rename(x=x) for a label x of the group leaves x on the
\* same object and the group with as many members as before.
C18_AsStated ==
    OnePair /\ Old = New /\ Old \in DOMAIN PreGroups =>
        /\ Old \in DOMAIN groups
        /\ groups[Old] = PreGroups[Old]
        /\ Cardinality(DOMAIN groups) = Cardinality(DOMAIN PreGroups)

\* C19 as stated: a rename call ends with the same label-to-series mapping
\* whatever the order its pairs are processed in.
C19_AsStated ==
    last.op = "rename" =>
        \A order \in Orders(DOMAIN last.kw) :
            groups = RenameAll(PreGroups, last.kw, order)

====
